---- MODULE Spec2Model ----
(***************************************************************************)
(* Model of the invoice anomaly pipeline of belvo_challenge:               *)
(*   - FinancialAnalysisAgent (app/agents/financial_analysis_agent.py):    *)
(*     the chatbot/tools graph run once per anomaly;                       *)
(*   - AnomalyDetector (app/agents/anomaly_detector.py);                   *)
(*   - InvoicesExtractor (app/agents/invoices_extractor.py).               *)
(* Each component has its own specification over the shared variables:     *)
(* Spec and FairSpec (the agent), DetectSpec (the detector), ExtractSpec   *)
(* and RepeatSpec (the extractor).  A component that a specification does  *)
(* not run keeps the value its Init gave it.                               *)
(***************************************************************************)
EXTENDS Integers, Sequences, FiniteSets, TLC

VARIABLES
    \* ---- FinancialAnalysisAgent, one entry per session (one run call) ----
    messages,     \* State.messages: the transcript
    anomaly,      \* State.anomaly
    node,         \* the graph node scheduled next: "chatbot", "tools", "END"
    steps,        \* supersteps the graph runner has executed in this run
    toolRun,      \* tools node: per requested call its phase and, once done, its ToolMessage
    outcome,      \* of run: "idle", "running", "returned" or the error raised
    final_state,  \* what run returned to its caller
    modelFailed,  \* whether a call of model.invoke in the chatbot node raised
    \* ---- AnomalyDetector.detect ----
    dPc,          \* "idle", "invoking", "returned", "raised"
    dData,        \* the DataFrame passed to detect
    dPrompt,      \* the prompt handed to model.invoke
    dInvokes,     \* calls of model.invoke made by the current detect call
    dAnswer,      \* what the model answered to the current call
    dModelError,  \* the exception model.invoke raised in the current call
    dResult,      \* what detect returned (a DetectionOutput) or raised
    \* ---- InvoicesExtractor ----
    csv,          \* ../data/invoices.csv: the rows in file order
    xPc,          \* "idle", "returned", "raised"
    xArgs,        \* the last call of the extractor: the method and its arguments
    xResult,      \* what that call returned: a DataFrame, or a pair of dates
    xError,       \* the exception that call raised
    xSeen,        \* one earlier extract call, kept by the caller to compare:
                  \* its arguments, its result, and whether a call with other
                  \* arguments was made since
    \* ---- Summarizer.summarize ----
    sPc,          \* "idle", "invoking", "returned", "raised"
    sAnomalies,   \* the DetectionOutput passed to summarize
    sPrompt,      \* the prompt handed to model.invoke
    sInvokes,     \* calls of model.invoke made by the current summarize call
    sModelError,  \* the exception model.invoke raised in the current call
    sResult,      \* what summarize returned or raised
    \* ---- the dashboard (streamlit_app.py) ----
    session_state, \* st.session_state: the three keys the script keeps
    rerun         \* the last run of the script: its widgets and what it called

agentVars == <<messages, anomaly, node, steps, toolRun, outcome, final_state,
              modelFailed>>
detectVars == <<dPc, dData, dPrompt, dInvokes, dAnswer, dModelError, dResult>>
extractVars == <<csv, xPc, xArgs, xResult, xError, xSeen>>
summarizeVars == <<sPc, sAnomalies, sPrompt, sInvokes, sModelError, sResult>>
dashVars == <<session_state, rerun>>
vars == <<agentVars, detectVars, extractVars, summarizeVars, dashVars>>

None == "none"

----------------------------------------------------------------------------
(* Bounds of the model.                                                    *)

\* Supersteps one graph.invoke may execute.  run passes no config, so the
\* graph library's default recursion limit applies (25); the model scales it
\* down, every step of the loop being the same whatever the limit.
RecursionLimit == 3
\* Most tool calls one AIMessage carries.
MaxToolCalls == 2
\* Calendar days the model distinguishes.
MaxDate == 2
\* Most rows of invoices.csv, and of a DataFrame handed to detect.
MaxRows == 2
\* Most anomalies in one answer of the detection model.
MaxAnomalies == 1
\* Most anomalies in one answer where the order of the answer is looked at
\* (AnswerSpec).
MaxLongAnswer == 2
\* Most anomalies in the DetectionOutput handed to summarize.
MaxSummaryAnomalies == 2
\* Most rows of invoices.csv where calls are compared with earlier ones
\* (RepeatSpec) or made with an invoice_type of any kind (CategorySpec),
\* and of the DataFrame handed to detect in AnswerSpec.
MaxRepeatRows == 1

\* Most reruns of the dashboard script in one browser session.
MaxReruns == 3

Dates == 1..MaxDate
Amounts == {1, 2}

----------------------------------------------------------------------------
(* Enumerations.                                                           *)

\* app/agents/models/invoice_type_input.py InvoiceType, by its use in
\* streamlit_app.py: the values of the csv column "type".
FlowTypes == {"INFLOW", "OUTFLOW"}

\* app/agents/models/invoice_type_output.py InvoiceType: the values of the
\* csv column "invoice_type".  The model keeps two of the five.
InvoiceTypes == {"Egreso", "Pago"}

\* Order of str values, as groupby sorts them.
TypeRank(t) == IF t = "Egreso" THEN 1 ELSE 2


----------------------------------------------------------------------------
(* FinancialAnalysisAgent: messages and the add_messages reducer.          *)

\* A message of the transcript.  role is "human", "ai" or "tool"; tool_calls
\* is set on an AIMessage; name and status on a ToolMessage.
Message(role, content, tool_calls, name, status) ==
    [role |-> role, content |-> content, tool_calls |-> tool_calls,
     name |-> name, status |-> status, id |-> None]

\* The initial message naming the extractor's method in place of the tool.
initial_message_get_invoices(anomaly_data, invoices_type) ==
    Message("human",
            [anomaly |-> anomaly_data, tool |-> "get_invoices",
             type |-> invoices_type],
            <<>>, None, None)

\* The initial message run builds from anomaly_data and invoices_type; it
\* names the tool the reasoner is told to call.
initial_message(anomaly_data, invoices_type) ==
    Message("human",
            [anomaly |-> anomaly_data, tool |-> "extract_invoices",
             type |-> invoices_type],
            <<>>, None, None)

\* The tools __init__ hands to ToolNode and to bind_tools.
tools == {"extract_invoices"}

\* What the reasoner may put in one tool call: the tool's name, and
\* arguments that are well formed, or carry a date pd.to_datetime rejects,
\* or carry an invoice_type that is no member of InvoiceType.
ToolCalls ==
    {[name |-> "extract_invoices", args |-> a] :
        a \in {"valid", "bad_date", "bad_invoice_type"}}
    \cup {[name |-> "other_tool", args |-> "valid"]}

ToolCallSeqs == UNION {[1..n -> ToolCalls] : n \in 0..MaxToolCalls}

\* The AIMessage model.invoke returns.
AIMessage(calls) == Message("ai", "text", calls, None, None)

\* Ids taken from the position in the update, not fresh ones.
WithIds_positional(right, base) ==
    [i \in 1..Len(right) |->
        IF right[i].id = None THEN [right[i] EXCEPT !.id = i]
        ELSE right[i]]

\* add_messages gives every message without an id a fresh one (a uuid; here
\* the position it will take), then merges right into left by id: a message
\* whose id is already in left replaces that one, any other is appended.
WithIds(right, base) ==
    [i \in 1..Len(right) |->
        IF right[i].id = None THEN [right[i] EXCEPT !.id = base + i]
        ELSE right[i]]

RECURSIVE Merge(_, _)
Merge(left, right) ==
    IF right = <<>> THEN left
    ELSE LET m == Head(right)
             hit == {i \in 1..Len(left) : left[i].id = m.id}
         IN IF hit # {}
            THEN Merge([left EXCEPT ![CHOOSE i \in hit : TRUE] = m], Tail(right))
            ELSE Merge(Append(left, m), Tail(right))

add_messages(left, right) == Merge(left, WithIds(right, Len(left)))

\* should_continue looking at the first message of the list.
should_continue_first_message(msgs) ==
    IF msgs[1].tool_calls # <<>> THEN "tools" ELSE "END"

\* should_continue: route on the last message's tool calls.
should_continue(msgs) ==
    IF msgs[Len(msgs)].tool_calls # <<>> THEN "tools" ELSE "END"

\* The tool's body without its try/except: the extractor's exception leaves
\* the tool.
extract_invoices_uncaught(args) ==
    IF args = "bad_date"
    THEN [raised |-> TRUE, value |-> None]
    ELSE [raised |-> FALSE, value |-> "invoices_json"]

\* The body of the extract_invoices tool: any exception of the extractor
\* becomes the returned string.
extract_invoices(args) ==
    IF args = "bad_date"
    THEN [raised |-> FALSE, value |-> "Error extracting invoices"]
    ELSE [raised |-> FALSE, value |-> "invoices_json"]

\* ToolNode on one tool call: a name that is no registered tool and
\* arguments the tool's schema rejects both become an error ToolMessage;
\* otherwise the tool runs and its return value is the content.  An
\* exception that leaves the tool's body is not an invocation error and
\* leaves the node too.
Raised == [phase |-> "raised", msg |-> None]

Done(m) == [phase |-> "done", msg |-> m]

\* ToolNode looking the tool up by name without checking the name first.
RunOne_unchecked(call) ==
    IF call.name \notin tools
    THEN Raised
    ELSE IF call.args = "bad_invoice_type"
    THEN Done(Message("tool", "Error: invalid arguments", <<>>, call.name, "error"))
    ELSE LET r == extract_invoices(call.args)
         IN IF r.raised THEN Raised
            ELSE Done(Message("tool", r.value, <<>>, call.name, "success"))

RunOne(call) ==
    IF call.name \notin tools
    THEN Done(Message("tool", "Error: not a valid tool", <<>>, call.name, "error"))
    ELSE IF call.args = "bad_invoice_type"
    THEN Done(Message("tool", "Error: invalid arguments", <<>>, call.name, "error"))
    ELSE LET r == extract_invoices(call.args)
         IN IF r.raised THEN Raised
            ELSE Done(Message("tool", r.value, <<>>, call.name, "success"))

\* What the dashboard passes to run: the selected anomaly as a table, and
\* the invoice type selected in the sidebar.
RunInputs ==
    {[anomaly_data |-> "anomaly_a", invoices_type |-> "INFLOW"],
     [anomaly_data |-> "anomaly_b", invoices_type |-> "OUTFLOW"]}

\* A final state that holds the messages only.
FinalState_messages_only(msgs, anomaly_data) ==
    [messages |-> msgs, anomaly |-> None]

\* The state graph.invoke returns, and run with it; NoState while run has
\* returned nothing.
FinalState(msgs, anomaly_data) == [messages |-> msgs, anomaly |-> anomaly_data]

NoState == FinalState(<<>>, None)

\* What the dashboard writes of the state run returned: the content of its
\* last message.
narrative(state) == state.messages[Len(state.messages)].content

\* A call the thread pool has not taken yet.
Pending == [phase |-> "pending", msg |-> None]

\* The runner with no limit on its supersteps.
WithinLimit_unlimited(n) == TRUE

\* Whether the runner may execute one more superstep.
WithinLimit(n) == n < RecursionLimit

----------------------------------------------------------------------------
(* FinancialAnalysisAgent: the run of one session s.                       *)

AgentInit(S) ==
    /\ messages = [s \in S |-> <<>>]
    /\ anomaly = [s \in S |-> None]
    /\ node = [s \in S |-> None]
    /\ steps = [s \in S |-> 0]
    /\ toolRun = [s \in S |-> <<>>]
    /\ outcome = [s \in S |-> "idle"]
    /\ final_state = [s \in S |-> NoState]
    /\ modelFailed = [s \in S |-> FALSE]

\* run with one messages list shared by every graph.invoke, in place of the
\* list of the state built for this call.
Run_shared_messages(s, anomaly_data, invoices_type) ==
    /\ outcome[s] = "idle"
    /\ messages' = [t \in DOMAIN messages |->
            add_messages(messages[t], <<initial_message(anomaly_data, invoices_type)>>)]
    /\ anomaly' = [anomaly EXCEPT ![s] = anomaly_data]
    /\ node' = [node EXCEPT ![s] = "chatbot"]
    /\ steps' = [steps EXCEPT ![s] = 0]
    /\ toolRun' = [toolRun EXCEPT ![s] = <<>>]
    /\ outcome' = [outcome EXCEPT ![s] = "running"]
    /\ UNCHANGED <<final_state, modelFailed, detectVars, extractVars, summarizeVars, dashVars>>

\* run: graph.invoke on the initial state; the entry point is chatbot.
Run(s, anomaly_data, invoices_type) ==
    /\ outcome[s] = "idle"
    /\ messages' = [messages EXCEPT ![s] =
            add_messages(<<>>, <<initial_message(anomaly_data, invoices_type)>>)]
    /\ anomaly' = [anomaly EXCEPT ![s] = anomaly_data]
    /\ node' = [node EXCEPT ![s] = "chatbot"]
    /\ steps' = [steps EXCEPT ![s] = 0]
    /\ toolRun' = [toolRun EXCEPT ![s] = <<>>]
    /\ outcome' = [outcome EXCEPT ![s] = "running"]
    /\ UNCHANGED <<final_state, modelFailed, detectVars, extractVars, summarizeVars, dashVars>>

\* The chatbot node returning the instruction once more along with the
\* model's answer.
Chatbot_reseeds(s, calls) ==
    /\ outcome[s] = "running"
    /\ node[s] = "chatbot"
    /\ WithinLimit(steps[s])
    /\ LET seed == [messages[s][1] EXCEPT !.id = None]
           msgs == add_messages(messages[s], <<seed, AIMessage(calls)>>)
           next == should_continue(msgs)
       IN /\ messages' = [messages EXCEPT ![s] = msgs]
          /\ node' = [node EXCEPT ![s] = next]
          /\ toolRun' = [toolRun EXCEPT ![s] =
                 IF next = "tools" THEN [i \in 1..Len(calls) |-> Pending]
                 ELSE <<>>]
          /\ outcome' = [outcome EXCEPT ![s] =
                 IF next = "END" THEN "returned" ELSE "running"]
          /\ final_state' = [final_state EXCEPT ![s] =
                 IF next = "END" THEN FinalState(msgs, anomaly[s]) ELSE @]
    /\ steps' = [steps EXCEPT ![s] = @ + 1]
    /\ UNCHANGED <<anomaly, modelFailed, detectVars, extractVars, summarizeVars, dashVars>>

\* The chatbot node: the model answers with calls; the conditional edge
\* routes to tools or to END, and at END graph.invoke returns.
Chatbot(s, calls) ==
    /\ outcome[s] = "running"
    /\ node[s] = "chatbot"
    /\ WithinLimit(steps[s])
    /\ LET msgs == add_messages(messages[s], <<AIMessage(calls)>>)
           next == should_continue(msgs)
       IN /\ messages' = [messages EXCEPT ![s] = msgs]
          /\ node' = [node EXCEPT ![s] = next]
          /\ toolRun' = [toolRun EXCEPT ![s] =
                 IF next = "tools" THEN [i \in 1..Len(calls) |-> Pending]
                 ELSE <<>>]
          /\ outcome' = [outcome EXCEPT ![s] =
                 IF next = "END" THEN "returned" ELSE "running"]
          /\ final_state' = [final_state EXCEPT ![s] =
                 IF next = "END" THEN FinalState(msgs, anomaly[s]) ELSE @]
    /\ steps' = [steps EXCEPT ![s] = @ + 1]
    /\ UNCHANGED <<anomaly, modelFailed, detectVars, extractVars, summarizeVars, dashVars>>

\* The chatbot node catching the exception of model.invoke and staying
\* scheduled, to invoke the model again.
ChatbotRaises_retried(s) ==
    /\ outcome[s] = "running"
    /\ node[s] = "chatbot"
    /\ WithinLimit(steps[s])
    /\ modelFailed' = [modelFailed EXCEPT ![s] = TRUE]
    /\ UNCHANGED <<messages, anomaly, node, steps, toolRun, outcome, final_state,
                   detectVars, extractVars, summarizeVars, dashVars>>

\* The chatbot node when model.invoke raises: nothing catches it.
ChatbotRaises(s) ==
    /\ outcome[s] = "running"
    /\ node[s] = "chatbot"
    /\ WithinLimit(steps[s])
    /\ outcome' = [outcome EXCEPT ![s] = "ReasoningError"]
    /\ modelFailed' = [modelFailed EXCEPT ![s] = TRUE]
    /\ UNCHANGED <<messages, anomaly, node, steps, toolRun, final_state,
                   detectVars, extractVars, summarizeVars, dashVars>>

\* The tools node hands the calls of the last AIMessage to a thread pool:
\* a worker takes call i ...
ToolStart(s, i) ==
    /\ outcome[s] = "running"
    /\ node[s] = "tools"
    /\ WithinLimit(steps[s])
    /\ i \in 1..Len(toolRun[s])
    /\ toolRun[s][i].phase = "pending"
    /\ toolRun' = [toolRun EXCEPT ![s][i].phase = "running"]
    /\ UNCHANGED <<messages, anomaly, node, steps, outcome, final_state,
                   modelFailed, detectVars, extractVars, summarizeVars, dashVars>>

\* ... and finishes it with its ToolMessage.
ToolFinish(s, i) ==
    /\ outcome[s] = "running"
    /\ node[s] = "tools"
    /\ i \in 1..Len(toolRun[s])
    /\ toolRun[s][i].phase = "running"
    /\ LET call == messages[s][Len(messages[s])].tool_calls[i]
           r == RunOne(call)
       IN /\ toolRun' = [toolRun EXCEPT ![s][i] = r]
          /\ outcome' = [outcome EXCEPT ![s] =
                 IF r.phase = "raised" THEN "ToolException" ELSE @]
    /\ UNCHANGED <<messages, anomaly, node, steps, final_state, modelFailed,
                   detectVars, extractVars, summarizeVars, dashVars>>

\* When every call has its ToolMessage the node returns them in the order
\* of the calls; the edge tools -> chatbot schedules the chatbot.
ToolsJoin(s) ==
    /\ outcome[s] = "running"
    /\ node[s] = "tools"
    /\ toolRun[s] # <<>>
    /\ \A i \in 1..Len(toolRun[s]) : toolRun[s][i].phase = "done"
    /\ messages' = [messages EXCEPT ![s] =
            add_messages(@, [i \in 1..Len(toolRun[s]) |-> toolRun[s][i].msg])]
    /\ node' = [node EXCEPT ![s] = "chatbot"]
    /\ steps' = [steps EXCEPT ![s] = @ + 1]
    /\ toolRun' = [toolRun EXCEPT ![s] = <<>>]
    /\ UNCHANGED <<anomaly, outcome, final_state, modelFailed, detectVars,
                   extractVars, summarizeVars, dashVars>>

\* A node is scheduled but the recursion limit is used up: graph.invoke
\* raises GraphRecursionError, and run lets it through.
OutOfSteps(s) ==
    /\ outcome[s] = "running"
    /\ node[s] \in {"chatbot", "tools"}
    /\ ~WithinLimit(steps[s])
    /\ outcome' = [outcome EXCEPT ![s] = "GraphRecursionError"]
    /\ UNCHANGED <<messages, anomaly, node, steps, toolRun, final_state,
                   modelFailed, detectVars, extractVars, summarizeVars, dashVars>>

AgentNext(S) ==
    \E s \in S :
        \/ \E in \in RunInputs : Run(s, in.anomaly_data, in.invoices_type)
        \/ \E calls \in ToolCallSeqs : Chatbot(s, calls)
        \/ ChatbotRaises(s)
        \/ \E i \in 1..MaxToolCalls : ToolStart(s, i)
        \/ \E i \in 1..MaxToolCalls : ToolFinish(s, i)
        \/ ToolsJoin(s)
        \/ OutOfSteps(s)

\* Two run calls in flight at once; the reasoner of each answers with no
\* call, one call, or two.
PairSessions == {1, 2}

PairToolCallSeqs ==
    {<<>>,
     <<[name |-> "extract_invoices", args |-> "valid"]>>,
     <<[name |-> "other_tool", args |-> "valid"]>>,
     <<[name |-> "extract_invoices", args |-> "bad_date"],
       [name |-> "extract_invoices", args |-> "valid"]>>}

PairNext ==
    \E s \in PairSessions :
        \/ \E in \in RunInputs : Run(s, in.anomaly_data, in.invoices_type)
        \/ \E calls \in PairToolCallSeqs : Chatbot(s, calls)
        \/ ChatbotRaises(s)
        \/ \E i \in 1..MaxToolCalls : ToolStart(s, i)
        \/ \E i \in 1..MaxToolCalls : ToolFinish(s, i)
        \/ ToolsJoin(s)
        \/ OutOfSteps(s)

----------------------------------------------------------------------------
(* AnomalyDetector.                                                        *)

\* The rows of a DataFrame extract returns: date, invoice_type, total_amount.
SeriesRows == [date : Dates, invoice_type : InvoiceTypes, total_amount : Amounts]

SeriesSet == UNION {[1..n -> SeriesRows] : n \in 0..MaxRows}

\* What the detection model may answer before the output schema is applied:
\* any list of anomalies, of any date, amount and type, "Otro" being a type
\* outside InvoiceType.
RawAnomalies ==
    [date : Dates, total_amount : Amounts,
     invoice_type : InvoiceTypes \cup {"Otro"}, reason : {"reason"}]

RawAnswers == UNION {[1..n -> RawAnomalies] : n \in 0..MaxAnomalies}

\* The table of the first row only (data.head(1).to_markdown()).
to_markdown_head(data) ==
    [i \in 1..(IF Len(data) > 1 THEN 1 ELSE Len(data)) |->
        <<i - 1, data[i].date, data[i].invoice_type, data[i].total_amount>>]

\* DataFrame.to_markdown: one line per row, in row order, with the index.
to_markdown(data) ==
    [i \in 1..Len(data) |->
        <<i - 1, data[i].date, data[i].invoice_type, data[i].total_amount>>]

\* PROMPT.format(data=...)
PROMPT(data) == [instruction |-> "Detect anomalies", data |-> data]

\* invoice_type declared as a plain str: any value conforms.
Conforms_any_str(raw) == TRUE

\* Anomaly / DetectionOutput: invoice_type must be a member of InvoiceType.
Conforms(raw) == \A i \in 1..Len(raw) : raw[i].invoice_type \in InvoiceTypes

DetectionOutput(anoms) == [kind |-> "DetectionOutput", anomalies |-> anoms]

\* The anomalies of an answer, one that equals an earlier one left out.
RECURSIVE Distinct(_, _)
Distinct(answer, seen) ==
    IF answer = <<>> THEN <<>>
    ELSE IF Head(answer) \in seen THEN Distinct(Tail(answer), seen)
    ELSE <<Head(answer)>> \o Distinct(Tail(answer), seen \cup {Head(answer)})

detect_return_distinct(answer) == DetectionOutput(Distinct(answer, {}))

\* detect returns what model.invoke returned.
detect_return(answer) == DetectionOutput(answer)

Raise(e) == [kind |-> e, anomalies |-> <<>>]

DetectInit ==
    /\ dPc = "idle"
    /\ dData = <<>>
    /\ dPrompt = PROMPT(<<>>)
    /\ dInvokes = 0
    /\ dAnswer = <<>>
    /\ dModelError = None
    /\ dResult = Raise(None)

\* detect answering an empty DataFrame itself, without a call of the model.
Detect_short_circuit(data) ==
    /\ dPc = "idle"
    /\ dData' = data
    /\ dPrompt' = PROMPT(to_markdown(data))
    /\ dInvokes' = IF data = <<>> THEN 0 ELSE 1
    /\ dPc' = IF data = <<>> THEN "returned" ELSE "invoking"
    /\ dAnswer' = <<>>
    /\ dModelError' = None
    /\ dResult' = IF data = <<>> THEN DetectionOutput(<<>>) ELSE Raise(None)
    /\ UNCHANGED <<agentVars, extractVars, summarizeVars, dashVars>>

\* detect calling the model a second time before it returns.
Detect_invokes_twice(data) ==
    /\ dPc = "idle"
    /\ dData' = data
    /\ dPrompt' = PROMPT(to_markdown(data))
    /\ dInvokes' = 2
    /\ dPc' = "invoking"
    /\ dAnswer' = <<>>
    /\ dModelError' = None
    /\ dResult' = Raise(None)
    /\ UNCHANGED <<agentVars, extractVars, summarizeVars, dashVars>>

\* detect, up to the call of the model: format the prompt, invoke.
Detect(data) ==
    /\ dPc = "idle"
    /\ dData' = data
    /\ dPrompt' = PROMPT(to_markdown(data))
    /\ dInvokes' = 1
    /\ dPc' = "invoking"
    /\ dAnswer' = <<>>
    /\ dModelError' = None
    /\ dResult' = Raise(None)
    /\ UNCHANGED <<agentVars, extractVars, summarizeVars, dashVars>>

\* The model answers with a conforming list: detect returns it.
ModelReturns(raw) ==
    /\ dPc = "invoking"
    /\ Conforms(raw)
    /\ dAnswer' = raw
    /\ dResult' = detect_return(raw)
    /\ dPc' = "returned"
    /\ UNCHANGED <<dData, dPrompt, dInvokes, dModelError, agentVars, extractVars, summarizeVars, dashVars>>

\* The model's answer does not conform to DetectionOutput: the structured
\* output raises, and detect with it.
ModelRejected(raw) ==
    /\ dPc = "invoking"
    /\ ~Conforms(raw)
    /\ dAnswer' = raw
    /\ dModelError' = "ValidationError"
    /\ dResult' = Raise("ValidationError")
    /\ dPc' = "raised"
    /\ UNCHANGED <<dData, dPrompt, dInvokes, agentVars, extractVars, summarizeVars, dashVars>>

\* detect calling the model once more when the call fails.
ModelRaises_retried ==
    /\ dPc = "invoking"
    /\ dInvokes < 2
    /\ dModelError' = "Exception"
    /\ dInvokes' = dInvokes + 1
    /\ UNCHANGED <<dPc, dData, dPrompt, dAnswer, dResult, agentVars, extractVars, summarizeVars, dashVars>>

\* The call of the model fails: detect raises the same exception.
ModelRaises ==
    /\ dPc = "invoking"
    /\ dModelError' = "Exception"
    /\ dResult' = Raise("Exception")
    /\ dPc' = "raised"
    /\ UNCHANGED <<dData, dPrompt, dInvokes, dAnswer, agentVars, extractVars, summarizeVars, dashVars>>

\* The caller has the result (or the exception); the detector keeps nothing
\* of the call.
DetectDone ==
    /\ dPc \in {"returned", "raised"}
    /\ dPc' = "idle"
    /\ dData' = <<>>
    /\ dPrompt' = PROMPT(<<>>)
    /\ dInvokes' = 0
    /\ dAnswer' = <<>>
    /\ dModelError' = None
    /\ dResult' = Raise(None)
    /\ UNCHANGED <<agentVars, extractVars, summarizeVars, dashVars>>

\* The inputs are enumerated only where the action's guard holds.
SeriesNow == IF dPc = "idle" THEN SeriesSet ELSE {}

AnswersNow == IF dPc = "invoking" THEN RawAnswers ELSE {}

\* The detector on short series, the model answering with longer lists.
ShortSeriesNow ==
    IF dPc = "idle" THEN UNION {[1..n -> SeriesRows] : n \in 0..MaxRepeatRows} ELSE {}

LongAnswersNow ==
    IF dPc = "invoking"
    THEN UNION {[1..n -> RawAnomalies] : n \in 0..MaxLongAnswer} ELSE {}

AnswerNext ==
    \/ \E data \in ShortSeriesNow : Detect(data)
    \/ DetectDone
    \/ \E raw \in LongAnswersNow : ModelReturns(raw)
    \/ \E raw \in LongAnswersNow : ModelRejected(raw)
    \/ ModelRaises

DetectNext ==
    \/ \E data \in SeriesNow : Detect(data)
    \/ DetectDone
    \/ \E raw \in AnswersNow : ModelReturns(raw)
    \/ \E raw \in AnswersNow : ModelRejected(raw)
    \/ ModelRaises

----------------------------------------------------------------------------
(* Summarizer.                                                             *)

\* The Anomaly objects a DetectionOutput can hold.
Anomalies == {a \in RawAnomalies : a.invoice_type \in InvoiceTypes}

SummaryInputs ==
    {DetectionOutput(l) : l \in UNION {[1..n -> Anomalies] : n \in 0..MaxSummaryAnomalies}}

\* anomalies.model_dump(): the fields of the model as a dict.
model_dump(output) == [anomalies |-> output.anomalies]

\* Summarizer.PROMPT.format(anomalies=...)
SummarizerPROMPT(anomalies) == [instruction |-> "Summarize", anomalies |-> anomalies]

\* The contents the model may answer with.
Reports == {"report_a", "report_b"}

SummarizeInit ==
    /\ sPc = "idle"
    /\ sAnomalies = DetectionOutput(<<>>)
    /\ sPrompt = SummarizerPROMPT(<<>>)
    /\ sInvokes = 0
    /\ sModelError = None
    /\ sResult = [kind |-> None, content |-> None]

\* summarize making one call of the model for every anomaly of the list.
Summarize_per_anomaly(anomalies) ==
    /\ sPc = "idle"
    /\ sAnomalies' = anomalies
    /\ sPrompt' = SummarizerPROMPT(model_dump(anomalies).anomalies)
    /\ sInvokes' = Len(anomalies.anomalies)
    /\ sPc' = "invoking"
    /\ sModelError' = None
    /\ sResult' = [kind |-> None, content |-> None]
    /\ UNCHANGED <<agentVars, detectVars, extractVars, dashVars>>

\* summarize, up to the call of the model: format the prompt, invoke.
Summarize(anomalies) ==
    /\ sPc = "idle"
    /\ sAnomalies' = anomalies
    /\ sPrompt' = SummarizerPROMPT(model_dump(anomalies).anomalies)
    /\ sInvokes' = 1
    /\ sPc' = "invoking"
    /\ sModelError' = None
    /\ sResult' = [kind |-> None, content |-> None]
    /\ UNCHANGED <<agentVars, detectVars, extractVars, dashVars>>

\* The model answers: summarize returns the answer.
SummaryReturns(report) ==
    /\ sPc = "invoking"
    /\ sResult' = [kind |-> "AIMessage", content |-> report]
    /\ sPc' = "returned"
    /\ UNCHANGED <<sAnomalies, sPrompt, sInvokes, sModelError,
                   agentVars, detectVars, extractVars, dashVars>>

\* The call of the model fails: summarize raises the same exception.
SummaryRaises ==
    /\ sPc = "invoking"
    /\ sModelError' = "Exception"
    /\ sResult' = [kind |-> "Exception", content |-> None]
    /\ sPc' = "raised"
    /\ UNCHANGED <<sAnomalies, sPrompt, sInvokes,
                   agentVars, detectVars, extractVars, dashVars>>

\* The caller has the report (or the exception); the summarizer keeps
\* nothing of the call.
SummarizeDone ==
    /\ sPc \in {"returned", "raised"}
    /\ sPc' = "idle"
    /\ sAnomalies' = DetectionOutput(<<>>)
    /\ sPrompt' = SummarizerPROMPT(<<>>)
    /\ sInvokes' = 0
    /\ sModelError' = None
    /\ sResult' = [kind |-> None, content |-> None]
    /\ UNCHANGED <<agentVars, detectVars, extractVars, dashVars>>

SummarizeNext ==
    \/ \E a \in SummaryInputs : Summarize(a)
    \/ \E r \in Reports : SummaryReturns(r)
    \/ SummaryRaises
    \/ SummarizeDone

----------------------------------------------------------------------------
(* InvoicesExtractor.                                                      *)

\* A row of invoices.csv, with the columns the extractor reads.
Records ==
    [invoice_date : Dates, type : FlowTypes, invoice_type : InvoiceTypes,
     total_amount : Amounts]

CsvFilesOf(n) == UNION {[1..k -> Records] : k \in 0..n}

CsvFiles == CsvFilesOf(MaxRows)

\* read_csv answering from the frame the previous get_invoices call left.
read_csv_cached ==
    IF xPc = "returned" /\ xArgs.op = "get_invoices" THEN xResult ELSE csv

\* pd.read_csv('../data/invoices.csv')
read_csv == csv

\* What a caller may pass as invoice_type: a member of InvoiceType (INFLOW,
\* OUTFLOW), a member of another enumeration (InvoiceType of
\* invoice_type_output.py, whose value is "Pago"), or a plain str.
CategoryArgs == FlowTypes \cup {"Pago", "str"}

\* invoice_type.value: an enumeration member has one, a str has not and the
\* attribute access raises.
HasValue(invoice_type) == invoice_type \in FlowTypes \cup InvoiceTypes

\* _filter_data with the end of the range left out (< in place of <=).
filter_data_exclusive_end(data, from_date, to_date, invoice_type) ==
    SelectSeq(data, LAMBDA r : /\ r.invoice_date >= from_date
                               /\ r.invoice_date < to_date
                               /\ r.type = invoice_type)

\* _filter_data without the condition on the type column.
filter_data_any_type(data, from_date, to_date, invoice_type) ==
    SelectSeq(data, LAMBDA r : /\ r.invoice_date >= from_date
                               /\ r.invoice_date <= to_date)

\* _filter_data: the rows with from_date <= invoice_date <= to_date and
\* type = invoice_type.value, in file order.
filter_data(data, from_date, to_date, invoice_type) ==
    SelectSeq(data, LAMBDA r : /\ r.invoice_date >= from_date
                               /\ r.invoice_date <= to_date
                               /\ r.type = invoice_type)

\* The group keys of groupby(['invoice_date', 'invoice_type']).
GroupKeys(data) ==
    {<<data[i].invoice_date, data[i].invoice_type>> : i \in 1..Len(data)}

KeyLess(a, b) ==
    \/ a[1] < b[1]
    \/ a[1] = b[1] /\ TypeRank(a[2]) < TypeRank(b[2])

\* groupby sorts the group keys (sort=True is the default).
RECURSIVE SortKeys(_)
SortKeys(K) ==
    IF K = {} THEN <<>>
    ELSE LET m == CHOOSE k \in K : \A o \in K \ {k} : KeyLess(k, o)
         IN <<m>> \o SortKeys(K \ {m})

\* The sum taken over the rows of the group's date, whatever their
\* invoice_type.
RECURSIVE GroupSum_by_date(_, _)
GroupSum_by_date(data, key) ==
    IF data = <<>> THEN 0
    ELSE LET r == Head(data)
         IN (IF r.invoice_date = key[1] THEN r.total_amount ELSE 0)
            + GroupSum_by_date(Tail(data), key)

\* ['total_amount'].sum() of one group.
RECURSIVE GroupSum(_, _)
GroupSum(data, key) ==
    IF data = <<>> THEN 0
    ELSE LET r == Head(data)
         IN (IF <<r.invoice_date, r.invoice_type>> = key THEN r.total_amount ELSE 0)
            + GroupSum(Tail(data), key)

\* The group keys in the order of their first row (groupby with sort=False).
RECURSIVE FirstSeen(_, _)
FirstSeen(data, done) ==
    IF data = <<>> THEN <<>>
    ELSE LET k == <<Head(data).invoice_date, Head(data).invoice_type>>
         IN IF k \in done THEN FirstSeen(Tail(data), done)
            ELSE <<k>> \o FirstSeen(Tail(data), done \cup {k})

groupby_sum_unsorted(data) ==
    LET keys == FirstSeen(data, {})
    IN [i \in 1..Len(keys) |->
           [date |-> keys[i][1], invoice_type |-> keys[i][2],
            total_amount |-> GroupSum(data, keys[i])]]

\* groupby(..., as_index=False)['total_amount'].sum(), then rename: one row
\* per group, columns date, invoice_type, total_amount.
groupby_sum(data) ==
    LET keys == SortKeys(GroupKeys(data))
    IN [i \in 1..Len(keys) |->
           [date |-> keys[i][1], invoice_type |-> keys[i][2],
            total_amount |-> GroupSum(data, keys[i])]]

extract(from_date, to_date, invoice_type) ==
    groupby_sum(filter_data(read_csv, from_date, to_date, invoice_type))

get_invoices(date, invoice_type) ==
    filter_data(read_csv, date, date, invoice_type)

\* The invoice dates of the rows of one type.
DatesOf(data, invoice_type) ==
    {data[i].invoice_date : i \in {j \in 1..Len(data) : data[j].type = invoice_type}}

\* get_date_range whatever the type asked for: the dates of all rows.
get_date_range_all_types(invoice_type) ==
    LET ds == {read_csv[i].invoice_date : i \in 1..Len(read_csv)}
    IN IF ds = {} THEN [raised |-> TRUE, value |-> <<>>]
       ELSE [raised |-> FALSE,
             value |-> <<CHOOSE d \in ds : \A e \in ds : d <= e,
                         CHOOSE d \in ds : \A e \in ds : d >= e>>]

\* get_date_range: the earliest and the latest invoice_date of the rows of
\* the type; NoData when the type has no row.
get_date_range(invoice_type) ==
    LET ds == DatesOf(read_csv, invoice_type)
    IN IF ds = {} THEN [raised |-> TRUE, value |-> <<>>]
       ELSE [raised |-> FALSE,
             value |-> <<CHOOSE d \in ds : \A e \in ds : d <= e,
                         CHOOSE d \in ds : \A e \in ds : d >= e>>]

Call(op, from_date, to_date, invoice_type) ==
    [op |-> op, from_date |-> from_date, to_date |-> to_date,
     invoice_type |-> invoice_type]

NoCall == Call(None, 0, 0, None)

NothingSeen == [args |-> NoCall, result |-> <<>>, others |-> FALSE]

\* The caller's note after a call with arguments args.
Noted(args) ==
    [xSeen EXCEPT !.others = @ \/ (xSeen.args # NoCall /\ args # xSeen.args)]

ExtractInit ==
    /\ csv \in CsvFiles
    /\ xPc = "idle"
    /\ xArgs = NoCall
    /\ xResult = <<>>
    /\ xError = None
    /\ xSeen = NothingSeen

\* What a call leaves: its return value, or the exception it raised.
Returns(v) == /\ xPc' = "returned" /\ xResult' = v /\ xError' = None

Raises(e) == /\ xPc' = "raised" /\ xResult' = <<>> /\ xError' = e

\* One call of extract.
Extract(from_date, to_date, invoice_type) ==
    /\ xArgs' = Call("extract", from_date, to_date, invoice_type)
    /\ IF HasValue(invoice_type)
       THEN Returns(extract(from_date, to_date, invoice_type))
       ELSE Raises("AttributeError")
    /\ xSeen' = Noted(xArgs')
    /\ UNCHANGED <<csv, agentVars, detectVars, summarizeVars, dashVars>>

\* One call of get_invoices.
GetInvoices(date, invoice_type) ==
    /\ xArgs' = Call("get_invoices", date, date, invoice_type)
    /\ IF HasValue(invoice_type)
       THEN Returns(get_invoices(date, invoice_type))
       ELSE Raises("AttributeError")
    /\ xSeen' = Noted(xArgs')
    /\ UNCHANGED <<csv, agentVars, detectVars, summarizeVars, dashVars>>

\* One call of get_date_range.
GetDateRange(invoice_type) ==
    /\ xArgs' = Call("get_date_range", 0, 0, invoice_type)
    /\ LET r == get_date_range(invoice_type)
       IN IF r.raised THEN Raises("NoData") ELSE Returns(r.value)
    /\ xSeen' = Noted(xArgs')
    /\ UNCHANGED <<csv, agentVars, detectVars, summarizeVars, dashVars>>

\* The caller keeps the call just made, to compare a later one with it.
Keep ==
    /\ xPc = "returned"
    /\ xArgs.op = "extract"
    /\ xSeen' = [args |-> xArgs, result |-> xResult, others |-> FALSE]
    /\ UNCHANGED <<csv, xPc, xArgs, xResult, xError, agentVars, detectVars, summarizeVars, dashVars>>

ExtractNext ==
    \/ \E f \in Dates, t \in Dates, ty \in FlowTypes : Extract(f, t, ty)
    \/ \E d \in Dates, ty \in FlowTypes : GetInvoices(d, ty)
    \/ \E ty \in FlowTypes : GetDateRange(ty)

\* The extractor called with an invoice_type of any kind.
CategoryNext ==
    \/ \E f \in Dates, t \in Dates, ty \in CategoryArgs : Extract(f, t, ty)
    \/ \E d \in Dates, ty \in CategoryArgs : GetInvoices(d, ty)

RepeatNext ==
    \/ \E f \in Dates, t \in Dates, ty \in FlowTypes : Extract(f, t, ty)
    \/ \E d \in Dates, ty \in FlowTypes : GetInvoices(d, ty)
    \/ Keep

----------------------------------------------------------------------------
(* Specifications.                                                         *)

\* What a specification gives the components it does not run.
AgentOff == AgentInit({})

DetectOff == DetectInit

ExtractOff ==
    /\ csv = <<>>
    /\ xPc = "idle"
    /\ xArgs = NoCall
    /\ xResult = <<>>
    /\ xError = None
    /\ xSeen = NothingSeen

SummarizeOff == SummarizeInit

----------------------------------------------------------------------------
(* streamlit_app.py: the dashboard script, run from the top at every       *)
(* interaction of the user (a rerun).                                      *)

\* A DataFrame held by the script, with the number of the rerun that made
\* it; pd.DataFrame() is a frame without rows, made by no detection run.
Frame(k, rows) == [run |-> k, rows |-> rows]

NoFrame == Frame(0, <<>>)

\* st.session_state of a new browser session: no key yet.  The values of
\* the three keys are the ones the script would give them.
NoSessionState ==
    [present |-> FALSE, anomalies_detected |-> FALSE,
     anomalies_df |-> NoFrame, invoices_df |-> NoFrame]

\* What one rerun did: its number, the button clicked, the dates of the
\* sidebar, the calls it made and how the script ended.
NoRerun ==
    [n |-> 0, click |-> None, from_date |-> 0, to_date |-> 0,
     extract_calls |-> 0, detect_calls |-> 0, agent_calls |-> 0,
     outcome |-> None]

\* The invoices.csv files the dashboard is run over: none for a type, one
\* row, rows on two dates.
DashCsvFiles ==
    LET a == [invoice_date |-> 1, type |-> "INFLOW", invoice_type |-> "Egreso",
              total_amount |-> 1]
        b == [invoice_date |-> 2, type |-> "INFLOW", invoice_type |-> "Pago",
              total_amount |-> 2]
        c == [invoice_date |-> 1, type |-> "OUTFLOW", invoice_type |-> "Pago",
              total_amount |-> 2]
    IN {<<>>, <<a>>, <<b, a, c>>}

\* The answers of the detector's model in the dashboard: no anomaly, one,
\* two, and one that does not conform.
DashAnswers ==
    LET a == [date |-> 1, total_amount |-> 1, invoice_type |-> "Egreso",
              reason |-> "reason"]
        b == [date |-> 2, total_amount |-> 2, invoice_type |-> "Pago",
              reason |-> "reason"]
        o == [date |-> 1, total_amount |-> 1, invoice_type |-> "Otro",
              reason |-> "reason"]
    IN {<<>>, <<a>>, <<b, a>>, <<o>>}

Clicks == {"none", "detect", "analyze"}

\* AnomalyDetector().detect(data) as one call: the model fails, or its
\* answer raw is rejected, or detect returns it.
detect(data, raw, fails) ==
    IF fails THEN Raise("Exception")
    ELSE IF ~Conforms(raw) THEN Raise("ValidationError")
    ELSE detect_return(raw)

\* The session state after its initialisation: a key that is missing gets
\* its default, a key that is there keeps its value.
Initialised(state) == [state EXCEPT !.present = TRUE]

\* The handler running whatever the dates.
Handles_any_dates(click, from_date, to_date) == click = "detect"

\* The condition of the detection handler.
Handles(click, from_date, to_date) ==
    click = "detect" /\ from_date <= to_date

\* The handler storing the anomalies and the flag, not the invoices.
Store_without_invoices(state, anomalies_df, invoices_df) ==
    IF anomalies_df.rows # <<>>
    THEN [state EXCEPT !.anomalies_df = anomalies_df,
                       !.anomalies_detected = TRUE]
    ELSE [state EXCEPT !.anomalies_detected = FALSE]

\* What the detection handler stores: the two frames and the flag when
\* there are anomalies, the flag alone when there are none.
Store(state, anomalies_df, invoices_df) ==
    IF anomalies_df.rows # <<>>
    THEN [state EXCEPT !.anomalies_df = anomalies_df,
                       !.invoices_df = invoices_df,
                       !.anomalies_detected = TRUE]
    ELSE [state EXCEPT !.anomalies_detected = FALSE]

\* The guard of the results: chart, table, selector and analyze button.
Displayed(state) ==
    state.anomalies_detected /\ state.anomalies_df.rows # <<>>

DashInit ==
    /\ session_state = NoSessionState
    /\ rerun = NoRerun

\* One run of the script.  The sidebar holds invoice_type, from_date and
\* to_date; click is the button that caused the rerun, if any; raw and
\* fails are what the model does if it is called.  An exception ends the
\* script where it is raised.
Rerun(click, invoice_type, from_date, to_date, raw, fails) ==
    /\ rerun.n < MaxReruns
    /\ click = "analyze" => (session_state.present /\ Displayed(session_state))
    /\ LET k == rerun.n + 1
           range == get_date_range(invoice_type)
           this == [n |-> k, click |-> click, from_date |-> from_date,
                    to_date |-> to_date, extract_calls |-> 0,
                    detect_calls |-> 0, agent_calls |-> 0, outcome |-> "ok"]
           state == Initialised(session_state)
       IN IF range.raised
          THEN /\ rerun' = [this EXCEPT !.outcome = "NoData"]
               /\ session_state' = session_state
          ELSE IF Handles(click, from_date, to_date)
          THEN LET invoices_df == extract(from_date, to_date, invoice_type)
                   anomalies == detect(invoices_df, raw, fails)
               IN IF anomalies.kind # "DetectionOutput"
                  THEN /\ rerun' = [this EXCEPT !.extract_calls = 1,
                                                !.detect_calls = 1,
                                                !.outcome = anomalies.kind]
                       /\ session_state' = state
                  ELSE /\ rerun' = [this EXCEPT !.extract_calls = 1,
                                                !.detect_calls = 1]
                       /\ session_state' =
                              Store(state, Frame(k, anomalies.anomalies),
                                    Frame(k, invoices_df))
          ELSE IF click = "analyze"
          THEN /\ rerun' = [this EXCEPT !.agent_calls = 1,
                               !.outcome = IF fails THEN "Exception" ELSE "ok"]
               /\ session_state' = state
          ELSE /\ rerun' = this
               /\ session_state' = state
    /\ UNCHANGED <<agentVars, detectVars, extractVars, summarizeVars>>

DashNext ==
    \E click \in Clicks, invoice_type \in FlowTypes,
       from_date \in Dates, to_date \in Dates,
       raw \in DashAnswers, fails \in BOOLEAN :
        Rerun(click, invoice_type, from_date, to_date, raw, fails)

DashOff == DashInit

OthersOff == SummarizeOff /\ DashOff

\* One session of the analysis agent.
Init == AgentInit({1}) /\ DetectOff /\ ExtractOff /\ OthersOff

Next == AgentNext({1})

Spec == Init /\ [][Next]_vars

\* The same, the runner and the reasoner never stopping for good.
FairSpec == Spec /\ WF_vars(Next)

\* Two sessions of the analysis agent, their steps interleaved.
PairInit == AgentInit(PairSessions) /\ DetectOff /\ ExtractOff /\ OthersOff

PairSpec == PairInit /\ [][PairNext]_vars

\* The summarizer.
SummarizeSpecInit == AgentOff /\ DetectOff /\ ExtractOff /\ SummarizeInit /\ DashOff

SummarizeSpec == SummarizeSpecInit /\ [][SummarizeNext]_vars

\* The detector.
DetectSpecInit == AgentOff /\ DetectInit /\ ExtractOff /\ OthersOff

DetectSpec == DetectSpecInit /\ [][DetectNext]_vars

\* The detector, the model answering with longer lists.
AnswerSpec == DetectSpecInit /\ [][AnswerNext]_vars

\* The extractor over one invoices.csv.
ExtractSpecInit == AgentOff /\ DetectOff /\ ExtractInit /\ OthersOff

ExtractSpec == ExtractSpecInit /\ [][ExtractNext]_vars

\* The extractor called with an invoice_type of any kind.
CategorySpecInit ==
    /\ AgentOff /\ DetectOff /\ ExtractInit /\ OthersOff
    /\ csv \in CsvFilesOf(MaxRepeatRows)

CategorySpec == CategorySpecInit /\ [][CategoryNext]_vars

\* The extractor called again and again, one earlier call kept.
RepeatSpecInit ==
    /\ AgentOff /\ DetectOff /\ ExtractInit /\ OthersOff
    /\ csv \in CsvFilesOf(MaxRepeatRows)

RepeatSpec == RepeatSpecInit /\ [][RepeatNext]_vars

\* The dashboard over one invoices.csv.
DashSpecInit ==
    /\ AgentOff /\ DetectOff /\ SummarizeOff /\ DashInit
    /\ csv \in DashCsvFiles
    /\ xPc = "idle"
    /\ xArgs = NoCall
    /\ xResult = <<>>
    /\ xError = None
    /\ xSeen = NothingSeen

DashSpec == DashSpecInit /\ [][DashNext]_vars


----------------------------------------------------------------------------
(* The analysis agent: claims C1 to C4.                                    *)

\* The reasoner turns of session s so far.
ChatbotTurns(s) ==
    Cardinality({i \in 1..Len(messages[s]) : messages[s][i].role = "ai"})

\* The chatbot runs on every other superstep, the first one included.
MaxChatbotTurns == (RecursionLimit + 1) \div 2

Finished(s) ==
    outcome[s] \in {"returned", "GraphRecursionError", "ReasoningError", "ToolException"}

\* Every reasoner turn of session s requested at least one tool call.
AlwaysRequests(s) ==
    \A i \in 1..Len(messages[s]) :
        messages[s][i].role = "ai" => messages[s][i].tool_calls # <<>>

\* The tool calls of session s: <<p, i>> is call i of the AIMessage at p.
CallsOf(s) ==
    {<<p, i>> \in (1..Len(messages[s])) \X (1..MaxToolCalls) :
        /\ messages[s][p].role = "ai"
        /\ i <= Len(messages[s][p].tool_calls)}

\* The tools node has appended its results for the AIMessage at p, and
\* nothing came after them.
JustJoined(s, p) ==
    /\ messages[s][p].role = "ai"
    /\ messages[s][p].tool_calls # <<>>
    /\ Len(messages[s]) = p + Len(messages[s][p].tool_calls)

\* C1: whatever the reasoner answers, also when it requests a tool call on
\* every turn, a run never makes more than the cap of reasoner turns (every
\* other superstep of the recursion limit) and, once started, always comes
\* to an end.
C1_TerminatesWithinCap ==
    /\ [](ChatbotTurns(1) <= MaxChatbotTurns /\ steps[1] <= RecursionLimit)
    /\ (outcome[1] = "running") ~> Finished(1)

\* C1 witness: a run whose reasoner requested tools on every turn has ended
\* with the cap of reasoner turns made.
C1_Witness ==
    /\ Finished(1)
    /\ AlwaysRequests(1)
    /\ ChatbotTurns(1) = MaxChatbotTurns

\* C2: a run that is out of supersteps while a node is still scheduled ends
\* returned (in DONE, with a narrative), not with an error.
C2_CapEndsInDone ==
    \A s \in DOMAIN outcome :
        (Finished(s) /\ ~WithinLimit(steps[s]) /\ node[s] # "END")
            => outcome[s] = "returned"

\* C3: a call of a tool that is not registered never ends the run with an
\* exception of the tools node; its result in the transcript is an error
\* ToolMessage for that call, and once the node's results are appended the
\* chatbot is the node scheduled next.
C3_UnknownToolRecovered ==
    \A s \in DOMAIN outcome :
        /\ outcome[s] # "ToolException"
        /\ \A c \in CallsOf(s) :
              LET p == c[1]
                  i == c[2]
                  call == messages[s][p].tool_calls[i]
              IN call.name \notin tools =>
                    /\ p + i <= Len(messages[s]) =>
                          /\ messages[s][p + i].role = "tool"
                          /\ messages[s][p + i].status = "error"
                          /\ messages[s][p + i].name = call.name
                    /\ JustJoined(s, p) => node[s] = "chatbot"

\* C3 witness: the error result of an unknown tool is in the transcript and
\* the run goes on with the chatbot.
C3_Witness ==
    /\ outcome[1] = "running"
    /\ node[1] = "chatbot"
    /\ \E c \in CallsOf(1) :
          /\ messages[1][c[1]].tool_calls[c[2]].name \notin tools
          /\ c[1] + c[2] <= Len(messages[1])
          /\ messages[1][c[1] + c[2]].status = "error"

\* C4: a call of extract_invoices on which the extractor raises never ends
\* the run with an exception; its result in the transcript is a ToolMessage
\* whose content is the error description the tool returns, and once the
\* node's results are appended the chatbot is the node scheduled next.
C4_ToolFailureRecovered ==
    \A s \in DOMAIN outcome :
        /\ outcome[s] # "ToolException"
        /\ \A c \in CallsOf(s) :
              LET p == c[1]
                  i == c[2]
                  call == messages[s][p].tool_calls[i]
              IN (call.name \in tools /\ call.args = "bad_date") =>
                    /\ p + i <= Len(messages[s]) =>
                          /\ messages[s][p + i].role = "tool"
                          /\ messages[s][p + i].content = "Error extracting invoices"
                    /\ JustJoined(s, p) => node[s] = "chatbot"

\* C4 witness: the error description of a failed extraction is in the
\* transcript, and the reasoner has taken its next turn after it.
C4_Witness ==
    /\ outcome[1] \in {"running", "returned"}
    /\ \E c \in CallsOf(1) :
          /\ messages[1][c[1]].tool_calls[c[2]].args = "bad_date"
          /\ c[1] + c[2] < Len(messages[1])
          /\ messages[1][c[1] + c[2]].content = "Error extracting invoices"
          /\ messages[1][Len(messages[1])].role = "ai"


----------------------------------------------------------------------------
(* The detector: claims C5 to C7.                                          *)

\* Anomaly a is a row of the DataFrame data.
InSeries(a, data) ==
    \E j \in 1..Len(data) :
        /\ data[j].date = a.date
        /\ data[j].invoice_type = a.invoice_type
        /\ data[j].total_amount = a.total_amount

\* C5: every anomaly detect returns has the date and category of a row of
\* the input series and that row's total (an answer of the model that
\* breaks this is refused, not returned).
C5_AnomaliesFromSeries ==
    dPc = "returned" =>
        \A i \in 1..Len(dResult.anomalies) : InSeries(dResult.anomalies[i], dData)

\* C6, as stated: called with an empty series, detect makes no call of the
\* model and returns an empty anomaly list.
C6_EmptyShortCircuit ==
    (dPc # "idle" /\ dData = <<>>) =>
        /\ dInvokes = 0
        /\ dPc = "returned"
        /\ dResult = DetectionOutput(<<>>)

\* C6, amended: called with an empty series, detect calls the model exactly
\* once, with a prompt whose table has no rows, and returns the model's
\* answer as it is.
C6_EmptyInvokesOnce ==
    (dPc # "idle" /\ dData = <<>>) =>
        /\ dInvokes = 1
        /\ dPrompt.data = <<>>
        /\ dPc = "returned" => dResult = DetectionOutput(dAnswer)

\* C6 witness: detect has returned from a call with an empty series, after
\* one call of the model, with an anomaly in the list.
C6_Witness ==
    /\ dPc = "returned"
    /\ dData = <<>>
    /\ dInvokes = 1
    /\ dResult.anomalies # <<>>

\* C7: for every input series, a call of detect has made exactly one call of
\* the model when the model answers, and what it returns is a
\* DetectionOutput.
C7_InvokesOnceReturnsOutput ==
    /\ dPc \in {"invoking", "returned", "raised"} => dInvokes = 1
    /\ dPc = "returned" =>
          /\ dResult.kind = "DetectionOutput"
          /\ Conforms(dResult.anomalies)

\* C7 witness: detect has returned a DetectionOutput for a series of one
\* row.
C7_Witness ==
    /\ dPc = "returned"
    /\ Len(dData) = 1
    /\ dInvokes = 1
    /\ dResult.kind = "DetectionOutput"

----------------------------------------------------------------------------
(* The extractor: claims C8 to C10.                                        *)

ExtractReturned == xPc = "returned" /\ xArgs.op = "extract"

RowKey(r) == <<r.date, r.invoice_type>>

\* C8, as stated: the rows extract returns are in ascending order of date
\* with at most one row per date.
C8_OneRowPerDate ==
    ExtractReturned =>
        \A i, j \in 1..Len(xResult) : i < j => xResult[i].date < xResult[j].date

\* C8, amended: the rows extract returns are in ascending order of date,
\* the rows of one date in ascending order of invoice_type, with at most one
\* row per date and invoice_type.
C8_SortedByDateAndType ==
    ExtractReturned =>
        \A i, j \in 1..Len(xResult) :
            i < j => KeyLess(RowKey(xResult[i]), RowKey(xResult[j]))

\* C8 witness: extract has returned two rows of the same date.
C8_Witness ==
    /\ ExtractReturned
    /\ \E i, j \in 1..Len(xResult) : i < j /\ xResult[i].date = xResult[j].date

C10_InvalidRangeRejected ==
    ~(ExtractReturned /\ xArgs.from_date > xArgs.to_date)

----------------------------------------------------------------------------
(* The extractor: claims C11 and C12.                                      *)

DateRangeCalled == xPc # "idle" /\ xArgs.op = "get_date_range"

\* The rows of invoices.csv of the type the last call asked for.
RowsOfType == {i \in 1..Len(csv) : csv[i].type = xArgs.invoice_type}

\* C11: get_date_range returns (min_date, max_date) with min_date <=
\* max_date, each the invoice_date of a row of the type asked for and no row
\* of that type dated before min_date or after max_date; when no row has the
\* type it fails with NoData.
C11_DateRange ==
    DateRangeCalled =>
        IF RowsOfType = {}
        THEN xPc = "raised" /\ xError = "NoData"
        ELSE /\ xPc = "returned"
             /\ Len(xResult) = 2
             /\ xResult[1] <= xResult[2]
             /\ \E i \in RowsOfType : csv[i].invoice_date = xResult[1]
             /\ \E i \in RowsOfType : csv[i].invoice_date = xResult[2]
             /\ \A i \in RowsOfType :
                   /\ xResult[1] <= csv[i].invoice_date
                   /\ csv[i].invoice_date <= xResult[2]

\* C11 witness: get_date_range has returned a range for a file that also
\* holds a row of the other type dated before that range.
C11_Witness ==
    /\ DateRangeCalled
    /\ xPc = "returned"
    /\ \E i \in 1..Len(csv) :
          /\ csv[i].type # xArgs.invoice_type
          /\ csv[i].invoice_date < xResult[1]

ExtractCalled == xPc # "idle" /\ xArgs.op = "extract"

\* Row i of invoices.csv is in the date range and of the type of the last
\* call.
Matches(i) ==
    /\ xArgs.from_date <= csv[i].invoice_date
    /\ csv[i].invoice_date <= xArgs.to_date
    /\ csv[i].type = xArgs.invoice_type

\* C12: when no row of invoices.csv is in the date range and of the type
\* asked for, the file without rows included, extract returns a DataFrame
\* of zero rows and raises nothing.
C12_NoMatchZeroRows ==
    (ExtractCalled /\ \A i \in 1..Len(csv) : ~Matches(i)) =>
        /\ xPc = "returned"
        /\ xResult = <<>>
        /\ xError = None

\* C12 witness: extract has returned zero rows for a well-formed range in
\* which the file has a row, of the other type.
C12_Witness ==
    /\ ExtractCalled
    /\ xPc = "returned"
    /\ xResult = <<>>
    /\ xArgs.from_date <= xArgs.to_date
    /\ \E i \in 1..Len(csv) :
          /\ xArgs.from_date <= csv[i].invoice_date
          /\ csv[i].invoice_date <= xArgs.to_date

----------------------------------------------------------------------------
(* The detector: claim C13.                                                *)

\* C13: when the call of the model made by detect fails, detect has raised
\* that same exception, has returned no DetectionOutput, and the model was
\* invoked exactly once in the call.
C13_ModelFailureSurfaced ==
    dModelError # None =>
        /\ dPc = "raised"
        /\ dResult = Raise(dModelError)
        /\ dInvokes = 1

\* C13 witness: detect was called with a series of rows, the model raised,
\* and detect has raised.
C13_Witness ==
    /\ dData # <<>>
    /\ dModelError = "Exception"
    /\ dPc = "raised"

----------------------------------------------------------------------------
(* The analysis agent, two sessions: claim C14.                            *)

\* What belongs to session s.
Session(s) ==
    <<messages[s], anomaly[s], node[s], steps[s], toolRun[s], outcome[s],
      final_state[s], modelFailed[s]>>

\* The supersteps the transcript of session s accounts for: one for every
\* reasoner turn, one for every request whose results were appended.
OwnSteps(s) ==
    Cardinality({p \in 1..Len(messages[s]) : messages[s][p].role = "ai"})
    + Cardinality({p \in 1..Len(messages[s]) :
                      /\ messages[s][p].role = "ai"
                      /\ messages[s][p].tool_calls # <<>>
                      /\ p < Len(messages[s])})

\* Turn q of session s is the result of a request of the closest reasoner
\* turn before it, in that same transcript.
OwnToolTurn(s, q) ==
    \E p \in 1..(q - 1) :
        /\ messages[s][p].role = "ai"
        /\ q - p <= Len(messages[s][p].tool_calls)
        /\ \A r \in (p + 1)..q : messages[s][r].role = "tool"
        /\ messages[s][q].name = messages[s][p].tool_calls[q - p].name

\* The transcript, turn count and outcome of session s are those of its own
\* run.
OwnTranscript(s) ==
    IF outcome[s] = "idle" THEN messages[s] = <<>> /\ steps[s] = 0
    ELSE /\ messages[s] # <<>>
         /\ messages[s][1].role = "human"
         /\ messages[s][1].content.anomaly = anomaly[s]
         /\ \A q \in 1..Len(messages[s]) : messages[s][q].id = q
         /\ \A q \in 2..Len(messages[s]) :
               \/ messages[s][q].role = "ai"
               \/ messages[s][q].role = "tool" /\ OwnToolTurn(s, q)
         /\ steps[s] = OwnSteps(s)
         /\ outcome[s] = "returned" <=>
               /\ messages[s][Len(messages[s])].role = "ai"
               /\ messages[s][Len(messages[s])].tool_calls = <<>>
         /\ outcome[s] = "GraphRecursionError" => steps[s] = RecursionLimit
         /\ outcome[s] = "returned" => final_state[s].messages = messages[s]

\* C14: with two sessions running at once, their steps interleaved in any
\* order, no step changes the state of more than one session, and each
\* session's transcript holds its own initiator turn, its own reasoner
\* turns and the results of its own requests only, its turn count and its
\* outcome being those its own transcript accounts for.
C14_SessionsIndependent ==
    /\ [](\A s \in DOMAIN outcome : OwnTranscript(s))
    /\ [][\A s, t \in DOMAIN outcome :
             (s # t /\ Session(s)' # Session(s)) => Session(t)' = Session(t)]_vars

\* C14 witness: both sessions are in their tools node at once, each with a
\* call running, on different anomalies and after different requests.
C14_Witness ==
    /\ DOMAIN outcome = PairSessions
    /\ anomaly[1] # anomaly[2]
    /\ node[1] = "tools" /\ node[2] = "tools"
    /\ \E i \in 1..Len(toolRun[1]) : toolRun[1][i].phase = "running"
    /\ \E i \in 1..Len(toolRun[2]) : toolRun[2][i].phase = "running"
    /\ Len(messages[1][Len(messages[1])].tool_calls)
          > Len(messages[2][Len(messages[2])].tool_calls)

----------------------------------------------------------------------------
(* The analysis agent: claims C15 to C17.                                  *)

LastMessage(s) == messages[s][Len(messages[s])]

\* C15: a started run has returned (the graph at END) exactly when the
\* latest turn is a reasoner turn without tool calls, and its tools node is
\* scheduled exactly when the latest turn is a reasoner turn with one or
\* more; in the state a returned run hands to its caller the last message
\* is that reasoner turn, and its content is what the caller shows.
C15_DoneIffNoToolCalls ==
    \A s \in DOMAIN outcome :
        outcome[s] # "idle" =>
            /\ outcome[s] = "returned" <=> node[s] = "END"
            /\ outcome[s] = "returned" <=>
                  (LastMessage(s).role = "ai" /\ LastMessage(s).tool_calls = <<>>)
            /\ node[s] = "tools" <=>
                  (LastMessage(s).role = "ai" /\ LastMessage(s).tool_calls # <<>>)
            /\ outcome[s] = "returned" =>
                  /\ final_state[s].messages = messages[s]
                  /\ narrative(final_state[s]) = LastMessage(s).content
            /\ outcome[s] # "returned" => final_state[s] = NoState

\* C15 witness: a run has returned after a round of tool calls, its last
\* message a reasoner turn without tool calls.
C15_Witness ==
    /\ outcome[1] = "returned"
    /\ Len(messages[1]) >= 4
    /\ messages[1][2].tool_calls # <<>>
    /\ narrative(final_state[1]) = "text"

\* The calls of the tools node of session s that a worker is executing.
Executing(s) == {i \in 1..Len(toolRun[s]) : toolRun[s][i].phase = "running"}

\* C16: the n >= 1 requests of a reasoner turn are executed one after
\* another in the order requested, no two at the same time; once their
\* results are appended the transcript holds exactly n tool turns after the
\* reasoner turn, one per request in that order, and a reasoner turn comes
\* only after the n of them.
C16_ToolsOneAfterAnother ==
    \A s \in DOMAIN outcome :
        /\ Cardinality(Executing(s)) <= 1
        /\ \A i \in 2..Len(toolRun[s]) :
              toolRun[s][i].phase # "pending" => toolRun[s][i - 1].phase = "done"
        /\ \A p \in 1..(Len(messages[s]) - 1) :
              (messages[s][p].role = "ai" /\ messages[s][p].tool_calls # <<>>) =>
                 LET n == Len(messages[s][p].tool_calls)
                 IN /\ p + n <= Len(messages[s])
                    /\ \A i \in 1..n :
                          /\ messages[s][p + i].role = "tool"
                          /\ messages[s][p + i].name = messages[s][p].tool_calls[i].name
                    /\ p + n < Len(messages[s]) => messages[s][p + n + 1].role = "ai"

\* C17: when model.invoke raises in the chatbot node, run has raised that
\* error and returned no state; the failed turn added nothing to the
\* transcript, and from then on nothing of the session changes: no second
\* call of the model, no further turn.
C17_ReasonerFailurePropagates ==
    /\ [](\A s \in DOMAIN outcome :
             modelFailed[s] =>
                /\ outcome[s] = "ReasoningError"
                /\ final_state[s] = NoState
                /\ LastMessage(s).role # "ai")
    /\ [][\A s \in DOMAIN outcome :
             modelFailed[s] => Session(s)' = Session(s)]_vars

\* C17 witness: the model raised on the reasoner turn that follows a round
\* of tool results.
C17_Witness ==
    /\ modelFailed[1]
    /\ outcome[1] = "ReasoningError"
    /\ Len(messages[1]) >= 3
    /\ LastMessage(1).role = "tool"

----------------------------------------------------------------------------
(* The extractor: claims C18 to C20.                                       *)

\* The sum of total_amount over the rows of invoices.csv numbered in I.
RECURSIVE AmountOver(_)
AmountOver(I) ==
    IF I = {} THEN 0
    ELSE LET i == CHOOSE j \in I : TRUE
         IN csv[i].total_amount + AmountOver(I \ {i})

\* The rows of invoices.csv of date d and of the type the last call asked for.
RowsOn(d) ==
    {i \in 1..Len(csv) : csv[i].invoice_date = d /\ csv[i].type = xArgs.invoice_type}

\* C18, as stated: the rows extract returns are one per date (the key being
\* the date and the type asked for), and the total of a row is the sum of
\* the amounts of all rows of invoices.csv of that date and that type.
C18_TotalPerDateAndCategory ==
    ExtractReturned =>
        /\ \A i, j \in 1..Len(xResult) :
              xResult[i].date = xResult[j].date => i = j
        /\ \A i \in 1..Len(xResult) :
              xResult[i].total_amount = AmountOver(RowsOn(xResult[i].date))

\* C18, amended: the rows extract returns are one per date and
\* invoice_type, and the total of a row is the sum of the amounts of all
\* rows of invoices.csv of that date, of the type asked for and of that
\* invoice_type.
C18_TotalPerDateAndInvoiceType ==
    ExtractReturned =>
        /\ \A i, j \in 1..Len(xResult) :
              RowKey(xResult[i]) = RowKey(xResult[j]) => i = j
        /\ \A i \in 1..Len(xResult) :
              /\ xArgs.from_date <= xResult[i].date
              /\ xResult[i].date <= xArgs.to_date
              /\ xResult[i].total_amount =
                    AmountOver({k \in RowsOn(xResult[i].date) :
                                   csv[k].invoice_type = xResult[i].invoice_type})

\* C18 witness: extract has returned one row that sums two rows of the
\* file.
C18_Witness ==
    /\ ExtractReturned
    /\ Len(csv) = 2
    /\ Len(xResult) = 1
    /\ xResult[1].total_amount = csv[1].total_amount + csv[2].total_amount

\* C19: the rows get_invoices returns are exactly the rows of invoices.csv
\* dated that day (from_date = to_date = the day) and of the type asked
\* for, in file order; the rows extract groups are exactly the rows dated
\* within from_date..to_date, both ends included, and of the type asked
\* for: every such row is in a group of the result, and every group of the
\* result holds such a row.
C19_FilterExact ==
    /\ (xPc = "returned" /\ xArgs.op = "get_invoices") =>
          /\ xArgs.from_date = xArgs.to_date
          /\ Len(xResult) = Cardinality({i \in 1..Len(csv) : Matches(i)})
          /\ \A k \in 1..Len(xResult) :
                \E i \in 1..Len(csv) : Matches(i) /\ csv[i] = xResult[k]
          /\ \A i \in 1..Len(csv) :
                Matches(i) => \E k \in 1..Len(xResult) : xResult[k] = csv[i]
    /\ ExtractReturned =>
          /\ \A i \in 1..Len(csv) :
                Matches(i) =>
                   \E k \in 1..Len(xResult) :
                      RowKey(xResult[k]) = <<csv[i].invoice_date, csv[i].invoice_type>>
          /\ \A k \in 1..Len(xResult) :
                \E i \in 1..Len(csv) :
                   /\ Matches(i)
                   /\ RowKey(xResult[k]) = <<csv[i].invoice_date, csv[i].invoice_type>>

\* C19 witness: extract over a range of more than one day has returned a
\* row for its first day and a row for its last day.
C19_Witness ==
    /\ ExtractReturned
    /\ xArgs.from_date < xArgs.to_date
    /\ \E k \in 1..Len(xResult) : xResult[k].date = xArgs.from_date
    /\ \E k \in 1..Len(xResult) : xResult[k].date = xArgs.to_date

\* C20: extract or get_invoices called with an invoice_type that is no
\* member of InvoiceType (INFLOW, OUTFLOW) fails with InvalidCategory and
\* returns no rows.
C20_InvalidCategoryRejected ==
    (xPc # "idle" /\ xArgs.op \in {"extract", "get_invoices"}
                 /\ xArgs.invoice_type \notin FlowTypes) =>
        /\ xPc = "raised"
        /\ xError = "InvalidCategory"
        /\ xResult = <<>>

----------------------------------------------------------------------------
(* The summarizer: claim C21.                                              *)

\* C21: one call of summarize makes exactly one call of the model, with one
\* prompt that holds the whole anomaly list; what it returns is the answer
\* of that call; and when that call fails summarize has raised the same
\* exception, still after one call.
C21_SummarizeOnce ==
    /\ sPc # "idle" =>
          /\ sInvokes = 1
          /\ sPrompt.anomalies = sAnomalies.anomalies
    /\ sPc = "returned" => sResult.kind = "AIMessage" /\ sModelError = None
    /\ sModelError # None =>
          /\ sPc = "raised"
          /\ sResult.kind = sModelError
          /\ sInvokes = 1

\* C21 witness: summarize was called with a list of two anomalies, the
\* model raised, and summarize has raised after its one call.
C21_Witness ==
    /\ sPc = "raised"
    /\ Len(sAnomalies.anomalies) = 2
    /\ sInvokes = 1

----------------------------------------------------------------------------
(* The analysis agent: claim C22.                                          *)

\* The initiator turns of session s.
HumanTurns(s) == {i \in 1..Len(messages[s]) : messages[s][i].role = "human"}

\* C22: a run starts with the chatbot scheduled and a transcript of exactly
\* one turn, the initiator turn, which describes the anomaly passed to run
\* and tells the reasoner to call the extraction tool; at every later point
\* the transcript has exactly one initiator turn, the first.
C22_OneInitiatorTurn ==
    \A s \in DOMAIN outcome :
        outcome[s] # "idle" =>
            /\ HumanTurns(s) = {1}
            /\ messages[s][1].content.anomaly = anomaly[s]
            /\ messages[s][1].content.tool = "extract_invoices"
            /\ steps[s] = 0 => (Len(messages[s]) = 1 /\ node[s] = "chatbot")

\* C22 witness: after a reasoner turn, a round of tool results and a second
\* reasoner turn the transcript still has its one initiator turn.
C22_Witness ==
    /\ Len(messages[1]) >= 4
    /\ HumanTurns(1) = {1}
    /\ LastMessage(1).role = "ai"

----------------------------------------------------------------------------
(* The detector: claims C23, C24 and C26.                                  *)

\* C23: when the model answers with a list of anomalies, detect returns a
\* DetectionOutput with exactly those anomalies: as many, each equal to the
\* one at its place in the answer.
C23_ReturnsAnswerUnchanged ==
    dPc = "returned" =>
        /\ Len(dResult.anomalies) = Len(dAnswer)
        /\ \A i \in 1..Len(dAnswer) : dResult.anomalies[i] = dAnswer[i]

\* C23 witness: detect has returned two anomalies, the later date first,
\* neither of them a row of the (empty or one-row) series.
C23_Witness ==
    /\ dPc = "returned"
    /\ Len(dResult.anomalies) = 2
    /\ dResult.anomalies[1].date > dResult.anomalies[2].date

\* C24: the prompt detect hands to the model holds one table line for every
\* row of the input series, in the order of the series, each line with the
\* date, the invoice type and the total of its row.
C24_PromptHoldsEveryRow ==
    dPc # "idle" =>
        /\ Len(dPrompt.data) = Len(dData)
        /\ \A i \in 1..Len(dData) :
              /\ dPrompt.data[i][2] = dData[i].date
              /\ dPrompt.data[i][3] = dData[i].invoice_type
              /\ dPrompt.data[i][4] = dData[i].total_amount

\* C24 witness: the model is being invoked for a series of two different
\* rows, the later date first.
C24_Witness ==
    /\ dPc = "invoking"
    /\ Len(dData) = 2
    /\ dData[1].date > dData[2].date
    /\ Len(dPrompt.data) = 2

\* Some anomaly of the list has an invoice_type outside InvoiceType.
OutsideInvoiceType(anoms) ==
    \E i \in 1..Len(anoms) : anoms[i].invoice_type \notin InvoiceTypes

\* C26: the invoice_type of every anomaly detect returns is a member of
\* InvoiceType; when the model's answer carries an invoice_type outside it,
\* detect raises the validation error and returns nothing.
C26_InvoiceTypeClosedSet ==
    /\ dPc = "returned" => ~OutsideInvoiceType(dResult.anomalies)
    /\ (dPc \in {"returned", "raised"} /\ OutsideInvoiceType(dAnswer)) =>
          /\ dPc = "raised"
          /\ dResult = Raise("ValidationError")

\* C26 witness: the model answered with the invoice_type "Otro" and detect
\* has raised.
C26_Witness ==
    /\ dPc = "raised"
    /\ OutsideInvoiceType(dAnswer)
    /\ dResult.anomalies = <<>>

----------------------------------------------------------------------------
(* The analysis agent: claims C25, C27 and C28.                            *)

\* C25: the agent registers exactly one tool, extract_invoices, and the
\* initial message of every session names that registered tool.
C25_InstructionNamesTheTool ==
    /\ Cardinality(tools) = 1
    /\ "extract_invoices" \in tools
    /\ \A s \in DOMAIN outcome :
          outcome[s] # "idle" => messages[s][1].content.tool \in tools

\* C25 witness: the reasoner called the tool by the name of the instruction
\* and the call's result is in the transcript.
C25_Witness ==
    /\ Len(messages[1]) >= 3
    /\ messages[1][3].role = "tool"
    /\ messages[1][3].status = "success"
    /\ messages[1][3].name = messages[1][1].content.tool

\* Sequence a is a prefix of sequence b.
IsPrefix(a, b) ==
    /\ Len(a) <= Len(b)
    /\ \A i \in 1..Len(a) : b[i] = a[i]

\* The roles of the turns b has after the prefix a.
AppendedRoles(a, b) == {b[i].role : i \in (Len(a) + 1)..Len(b)}

\* C27: in every step the transcript of a session before the step is a
\* prefix of the transcript after it; a chatbot step that changes it
\* appends exactly one reasoner turn, a tools step only tool turns.
C27_TranscriptAppendOnly ==
    [][\A s \in DOMAIN outcome :
          /\ IsPrefix(messages[s], messages'[s])
          /\ (node[s] = "chatbot" /\ messages'[s] # messages[s]) =>
                /\ Len(messages'[s]) = Len(messages[s]) + 1
                /\ AppendedRoles(messages[s], messages'[s]) = {"ai"}
          /\ (node[s] = "tools" /\ messages'[s] # messages[s]) =>
                AppendedRoles(messages[s], messages'[s]) = {"tool"}]_vars

\* C27 witness: a reasoner turn asking for two calls is followed by their
\* two tool turns, after the initial message.
C27_Witness ==
    /\ Len(messages[1]) = 4
    /\ messages[1][1].role = "human"
    /\ Len(messages[1][2].tool_calls) = 2
    /\ messages[1][3].role = "tool"
    /\ messages[1][4].role = "tool"

\* C28: once run has set the anomaly of a session no step changes it, and
\* the final state run returns carries the anomaly passed to run.
C28_AnomalyKept ==
    /\ [](\A s \in DOMAIN outcome :
            outcome[s] = "returned" =>
                /\ final_state[s].anomaly = anomaly[s]
                /\ final_state[s].anomaly = messages[s][1].content.anomaly)
    /\ [][\A s \in DOMAIN outcome :
            outcome[s] # "idle" => anomaly'[s] = anomaly[s]]_vars

\* C28 witness: run has returned after a round of tool calls, its final
\* state carrying the second anomaly of the inputs.
C28_Witness ==
    /\ outcome[1] = "returned"
    /\ final_state[1].anomaly = "anomaly_b"
    /\ Len(final_state[1].messages) >= 4

----------------------------------------------------------------------------
(* The dashboard: claims C29 and C30.                                      *)

\* The rerun that has just ended was a click on Detect with from_date no
\* later than to_date.
ValidDetect(r) == r.click = "detect" /\ r.from_date <= r.to_date

\* The rerun that has just ended called extract or detect.
Queried(r) == r.extract_calls > 0 \/ r.detect_calls > 0

\* C29, as stated: extract and detect are called only in a rerun where
\* Detect was clicked and from_date <= to_date; every other rerun calls
\* neither and leaves st.session_state as it was.
C29_OtherRerunsChangeNothing ==
    [][rerun'.n # rerun.n =>
          /\ Queried(rerun') => ValidDetect(rerun')
          /\ ~ValidDetect(rerun') =>
                /\ ~Queried(rerun')
                /\ session_state' = session_state]_vars

\* C29, amended: extract and detect are called only in a rerun where
\* Detect was clicked and from_date <= to_date; every other rerun calls
\* neither and changes no value stored in st.session_state: it leaves the
\* session state as it was, or, in a new session, creates the three keys
\* with their defaults (False and two empty frames).
C29_OtherRerunsKeepStoredValues ==
    /\ [](~session_state.present => session_state = NoSessionState)
    /\ [][rerun'.n # rerun.n =>
            /\ Queried(rerun') => ValidDetect(rerun')
            /\ ~ValidDetect(rerun') =>
                  /\ ~Queried(rerun')
                  /\ session_state' \in
                        {session_state, Initialised(session_state)}]_vars

\* C29 witness: after a detection that found anomalies, Detect is clicked
\* with from_date after to_date; nothing is called and the results stay.
C29_Witness ==
    /\ rerun.n >= 2
    /\ rerun.click = "detect"
    /\ rerun.from_date > rerun.to_date
    /\ ~Queried(rerun)
    /\ session_state.anomalies_detected
    /\ session_state.anomalies_df.run < rerun.n

\* C30: whenever anomalies_detected is true, anomalies_df has rows and
\* invoices_df is the frame extracted in the rerun that made anomalies_df.
C30_StoredResultsConsistent ==
    session_state.anomalies_detected =>
        /\ session_state.present
        /\ session_state.anomalies_df.rows # <<>>
        /\ session_state.anomalies_df.run > 0
        /\ session_state.invoices_df.run = session_state.anomalies_df.run

\* C30 witness: a second detection replaced the results of the first, and
\* the analyze button of the new results has been clicked.
C30_Witness ==
    /\ session_state.anomalies_detected
    /\ session_state.anomalies_df.run = 2
    /\ session_state.invoices_df.run = 2
    /\ rerun.n = 3
    /\ rerun.click = "analyze"
    /\ rerun.agent_calls = 1

============================================================================
